---- MODULE Spec2Model ----
(***************************************************************************)
(* Convex hull constructors (Source/Convex_Hull.py) and segment            *)
(* intersection tests (Source/Line_Intersection.py).                       *)
(*                                                                         *)
(* A point is a pair <<x, y>> of integers (the canvas delivers integer     *)
(* event.x, event.y); Python's p[0], p[1] are p[1], p[2] here.  Python     *)
(* lists are sequences; Python's 0-based index i is position i + 1.        *)
(* math.atan2 is modelled by the exact order of the angles it returns.     *)
(***************************************************************************)
EXTENDS Integers, Sequences, FiniteSets, TLC

VARIABLES
    seg,      \* Line_Intersection: the four points (p1, p2, p3, p4) handed to a test
    method,   \* Line_Intersection: the test that was applied ("none" before)
    verdict,  \* Line_Intersection: the boolean the test returned
    points,   \* ConvexHullApp.points
    alg,      \* the hull algorithm that was invoked ("none" before)
    pc,       \* "idle", "wrap" (inside a while True loop), "done", "raised"
    hull,     \* the local list `hull` of jarvis_march_convex_hull / brute_force
    pivot,    \* jarvis_march_convex_hull: local `pivot`
    p,        \* brute_force: local index `p`
    l,        \* brute_force: local index `l`
    ret,      \* the value the algorithm returned
    err,      \* the exception the algorithm raised ("none" if it returned)
    sorted_pts  \* graham_scan: the list that quicksort returned (<<>> before)

vars == <<seg, method, verdict, points, alg, pc, hull, pivot, p, l, ret, err, sorted_pts>>

(***************************************************************************)
(* Bounds of the model.                                                    *)
(***************************************************************************)
MaxCoord == 2     \* the coordinates of segment end points range over 0 .. MaxCoord
MaxPts == 4       \* longest input list of a hull algorithm
MaxRnd == 5       \* the outcomes of random.randint are decoded from 0 .. MaxRnd

Coords == 0 .. MaxCoord
Grid == Coords \X Coords          \* the end points of the segments

\* The hull inputs take their coordinates from 0 .. 2: three collinear
\* points, a point strictly inside a triangle and repeated points all occur.
HullCoords == 0 .. 2
HullGrid == HullCoords \X HullCoords   \* the points of the hull inputs

Abs(n) == IF n < 0 THEN -n ELSE n
Min2(a, b) == IF a <= b THEN a ELSE b
Max2(a, b) == IF a >= b THEN a ELSE b
Range(s) == {s[i] : i \in 1 .. Len(s)}

(***************************************************************************)
(* Line_Intersection.py                                                    *)
(***************************************************************************)

\* do_intersect_ccw.ccw
ccw(A, B, C) ==
    LET val == (B[2] - A[2]) * (C[1] - B[1]) - (B[1] - A[1]) * (C[2] - B[2])
    IN  IF val = 0 THEN 0 ELSE IF val > 0 THEN 1 ELSE -1

do_intersect_ccw(A, B, C, D) ==
    LET orientation1 == ccw(A, B, C)
        orientation2 == ccw(A, B, D)
        orientation3 == ccw(C, D, A)
        orientation4 == ccw(C, D, B)
    IN  IF orientation1 # orientation2 /\ orientation3 # orientation4
        THEN TRUE
        ELSE IF orientation1 = orientation2 /\ orientation2 = orientation3
                /\ orientation3 = 0
             THEN IF \/ (Min2(A[1], B[1]) <= C[1] /\ C[1] <= Max2(A[1], B[1]))
                     \/ (Min2(A[1], B[1]) <= D[1] /\ D[1] <= Max2(A[1], B[1]))
                     \/ (Min2(C[1], D[1]) <= A[1] /\ A[1] <= Max2(C[1], D[1]))
                     \/ (Min2(C[1], D[1]) <= B[1] /\ B[1] <= Max2(C[1], D[1]))
                  THEN TRUE
                  ELSE FALSE
             ELSE FALSE

\* vecotr_cross_product.direction
direction(p1, p2, p3) ==
    (p2[1] - p1[1]) * (p3[2] - p1[2]) - (p2[2] - p1[2]) * (p3[1] - p1[1])

\* vecotr_cross_product.on_segment with the y-interval test dropped
on_segment_mut(pp, q, r) ==
    Min2(pp[1], r[1]) <= q[1] /\ q[1] <= Max2(pp[1], r[1])

\* vecotr_cross_product.on_segment
on_segment(pp, q, r) ==
    /\ Min2(pp[1], r[1]) <= q[1] /\ q[1] <= Max2(pp[1], r[1])
    /\ Min2(pp[2], r[2]) <= q[2] /\ q[2] <= Max2(pp[2], r[2])

vecotr_cross_product(p1, p2, p3, p4) ==
    LET d1 == direction(p3, p4, p1)
        d2 == direction(p3, p4, p2)
        d3 == direction(p1, p2, p3)
        d4 == direction(p1, p2, p4)
    IN  IF /\ ((d1 > 0 /\ d2 < 0) \/ (d1 < 0 /\ d2 > 0))
           /\ ((d3 > 0 /\ d4 < 0) \/ (d3 < 0 /\ d4 > 0))
        THEN TRUE
        ELSE IF d1 = 0 /\ on_segment(p3, p1, p4) THEN TRUE
        ELSE IF d2 = 0 /\ on_segment(p3, p2, p4) THEN TRUE
        ELSE IF d3 = 0 /\ on_segment(p1, p3, p2) THEN TRUE
        ELSE IF d4 = 0 /\ on_segment(p1, p4, p2) THEN TRUE
        ELSE FALSE

\* line_sweep.calculate_determinant with the sign of one term flipped
calculate_determinant_mut(point_1, point_2, point_3) ==
    point_1[1] * point_2[2] + point_1[2] * point_3[1] + point_2[1] * point_3[2]
    - point_3[1] * point_2[2] - point_3[2] * point_1[1] + point_2[1] * point_1[2]

\* line_sweep.calculate_determinant
calculate_determinant(point_1, point_2, point_3) ==
    point_1[1] * point_2[2] + point_1[2] * point_3[1] + point_2[1] * point_3[2]
    - point_3[1] * point_2[2] - point_3[2] * point_1[1] - point_2[1] * point_1[2]

\* line_sweep.intersect without the test of p3 and p4 against the line p1 - p2
intersect_one_sided(p1, p2, p3, p4) ==
    IF \/ Max2(p1[1], p2[1]) < Min2(p3[1], p4[1])
       \/ Min2(p1[1], p2[1]) > Max2(p3[1], p4[1])
    THEN FALSE
    ELSE IF \/ Max2(p1[2], p2[2]) < Min2(p3[2], p4[2])
            \/ Min2(p1[2], p2[2]) > Max2(p3[2], p4[2])
    THEN FALSE
    ELSE IF calculate_determinant(p1, p3, p4) * calculate_determinant(p2, p3, p4) < 0
    THEN TRUE
    ELSE FALSE

\* line_sweep.intersect
intersect(p1, p2, p3, p4) ==
    IF \/ Max2(p1[1], p2[1]) < Min2(p3[1], p4[1])
       \/ Min2(p1[1], p2[1]) > Max2(p3[1], p4[1])
    THEN FALSE
    ELSE IF \/ Max2(p1[2], p2[2]) < Min2(p3[2], p4[2])
            \/ Min2(p1[2], p2[2]) > Max2(p3[2], p4[2])
    THEN FALSE
    ELSE IF /\ calculate_determinant(p1, p3, p4) * calculate_determinant(p2, p3, p4) < 0
            /\ calculate_determinant(p3, p1, p2) * calculate_determinant(p4, p1, p2) < 0
    THEN TRUE
    ELSE FALSE

line_sweep(p1, p2, p3, p4) == intersect(p1, p2, p3, p4)

(***************************************************************************)
(* Convex_Hull.py: helpers shared by the models of the five algorithms     *)
(***************************************************************************)

Ok(v) == [err |-> "none", val |-> v]
Raise(e) == [err |-> e, val |-> <<>>]

\* list.index(x) followed by del list[...]: drops the first occurrence of x
RECURSIVE RemoveFirst(_, _)
RemoveFirst(s, x) ==
    IF s = <<>> THEN <<>>
    ELSE IF Head(s) = x THEN Tail(s)
    ELSE <<Head(s)>> \o RemoveFirst(Tail(s), x)

ButLast(s) == SubSeq(s, 1, Len(s) - 1)

\* The order of math.atan2(u, v) on exact arguments: the result lies in
\* (-pi, 0) when u < 0, is 0 when u = 0 and v >= 0, lies in (0, pi) when
\* u > 0 and is pi when u = 0 and v < 0; inside an open half the angle grows
\* with the counter-clockwise turn from (v1, u1) to (v2, u2).
Atan2Class(u, v) ==
    IF u < 0 THEN 0 ELSE IF u > 0 THEN 2 ELSE IF v >= 0 THEN 1 ELSE 3

Atan2Less(u1, v1, u2, v2) ==
    \/ Atan2Class(u1, v1) < Atan2Class(u2, v2)
    \/ /\ Atan2Class(u1, v1) = Atan2Class(u2, v2)
       /\ v1 * u2 - u1 * v2 > 0

Atan2Equal(u1, v1, u2, v2) ==
    /\ Atan2Class(u1, v1) = Atan2Class(u2, v2)
    /\ v1 * u2 - u1 * v2 = 0

(***************************************************************************)
(* ConvexHullApp.graham_scan                                               *)
(***************************************************************************)

\* polar_angle(a) < polar_angle(b), both taken around the anchor
polar_angle_less(a, b, anchor) ==
    Atan2Less(a[2] - anchor[2], a[1] - anchor[1], b[2] - anchor[2], b[1] - anchor[1])

polar_angle_equal(a, b, anchor) ==
    Atan2Equal(a[2] - anchor[2], a[1] - anchor[1], b[2] - anchor[2], b[1] - anchor[1])

\* graham_scan.distance
distance(p0, p1) ==
    (p0[2] - p1[2]) * (p0[2] - p1[2]) + (p0[1] - p1[1]) * (p0[1] - p1[1])

\* sorted(equal, key=distance): a stable sort, here by insertion
RECURSIVE insert_by_distance(_, _, _)
insert_by_distance(s, x, anchor) ==
    IF s = <<>> THEN <<x>>
    ELSE IF distance(x, anchor) < distance(Head(s), anchor) THEN <<x>> \o s
    ELSE <<Head(s)>> \o insert_by_distance(Tail(s), x, anchor)

RECURSIVE sorted_by_distance(_, _)
sorted_by_distance(s, anchor) ==
    IF s = <<>> THEN <<>>
    ELSE insert_by_distance(sorted_by_distance(ButLast(s), anchor), s[Len(s)], anchor)

\* graham_scan.quicksort with the group of equal angle left unsorted, the
\* pivot at its front
RECURSIVE quicksort_pivot_first(_, _, _)
quicksort_pivot_first(a, anchor, r) ==
    IF Len(a) <= 1 THEN a
    ELSE LET piv == a[(r % Len(a)) + 1]
             smaller == SelectSeq(a, LAMBDA pt : polar_angle_less(pt, piv, anchor))
             equal == SelectSeq(a, LAMBDA pt : polar_angle_equal(pt, piv, anchor))
             larger == SelectSeq(a, LAMBDA pt :
                           /\ ~polar_angle_less(pt, piv, anchor)
                           /\ ~polar_angle_equal(pt, piv, anchor))
         IN  quicksort_pivot_first(smaller, anchor, r \div Len(a))
             \o <<piv>> \o RemoveFirst(equal, piv)
             \o quicksort_pivot_first(larger, anchor, r \div Len(a))

\* graham_scan.quicksort; r supplies the outcomes of random.randint: the
\* pivot index at a list of length n is r % n, and the recursive calls go on
\* with r \div n
RECURSIVE quicksort(_, _, _)
quicksort(a, anchor, r) ==
    IF Len(a) <= 1 THEN a
    ELSE LET piv == a[(r % Len(a)) + 1]
             smaller == SelectSeq(a, LAMBDA pt : polar_angle_less(pt, piv, anchor))
             equal == SelectSeq(a, LAMBDA pt : polar_angle_equal(pt, piv, anchor))
             larger == SelectSeq(a, LAMBDA pt :
                           /\ ~polar_angle_less(pt, piv, anchor)
                           /\ ~polar_angle_equal(pt, piv, anchor))
         IN  quicksort(smaller, anchor, r \div Len(a))
             \o sorted_by_distance(equal, anchor)
             \o quicksort(larger, anchor, r \div Len(a))

\* the loop that finds min_idx; m = 0 stands for None, i and m are positions
RECURSIVE min_idx_loop(_, _, _)
min_idx_loop(pts, i, m) ==
    IF i > Len(pts) THEN m
    ELSE LET m1 == IF m = 0 \/ pts[i][2] < pts[m][2] THEN i ELSE m
             m2 == IF pts[i][2] = pts[m1][2] /\ pts[i][1] < pts[m1][1] THEN i ELSE m1
         IN  min_idx_loop(pts, i + 1, m2)

\* graham_scan.det
det(p1, p2, p3) ==
    (p2[1] - p1[1]) * (p3[2] - p1[2]) - (p2[2] - p1[2]) * (p3[1] - p1[1])

\* the pop loop of graham_scan with `< 0` in place of `<= 0`
RECURSIVE graham_pop_keep_collinear(_, _)
graham_pop_keep_collinear(h, s) ==
    IF Len(h) >= 2 /\ det(h[Len(h) - 1], h[Len(h)], s) < 0
    THEN graham_pop_keep_collinear(ButLast(h), s)
    ELSE h

\* while len(hull) >= 2 and det(hull[-2], hull[-1], s) <= 0: del hull[-1]
RECURSIVE graham_pop(_, _)
graham_pop(h, s) ==
    IF Len(h) >= 2 /\ det(h[Len(h) - 1], h[Len(h)], s) <= 0
    THEN graham_pop(ButLast(h), s)
    ELSE h

\* for s in sorted_pts[1:]: ...; hull.append(s)
RECURSIVE graham_loop(_, _)
graham_loop(h, rest) ==
    IF rest = <<>> THEN h
    ELSE graham_loop(Append(graham_pop(h, Head(rest)), Head(rest)), Tail(rest))

\* sorted_pts = quicksort(self.points), the pivots drawn from r; the line is
\* not reached (<<>>) when self.points[min_idx] has raised
graham_sort(pts, r) ==
    LET min_idx == min_idx_loop(pts, 1, 0)
    IN  IF min_idx = 0 THEN <<>> ELSE quicksort(pts, pts[min_idx], r)

\* graham_scan, given the list srt that its quicksort returned
graham_scan_sorted(pts, srt) ==
    LET min_idx == min_idx_loop(pts, 1, 0)
    IN  IF min_idx = 0
        THEN Raise("TypeError")        \* self.points[None]
        ELSE LET anchor == pts[min_idx]
                 rest == RemoveFirst(srt, anchor)    \* del sorted_pts[...]
             IN  IF rest = <<>>
                 THEN Raise("IndexError")    \* sorted_pts[0]
                 ELSE Ok(graham_loop(<<anchor, rest[1]>>, Tail(rest)))

graham_scan(pts, r) == graham_scan_sorted(pts, graham_sort(pts, r))

(***************************************************************************)
(* ConvexHullApp.andrews_monotone_chain                                    *)
(***************************************************************************)

\* jarvis_march_convex_hull.orientation and andrews_monotone_chain.orientation
orientation(pp, q, r) ==
    LET val == (q[2] - pp[2]) * (r[1] - q[1]) - (q[1] - pp[1]) * (r[2] - q[2])
    IN  IF val = 0 THEN 0 ELSE IF val > 0 THEN 1 ELSE -1

\* tuple comparison a < b
LexLess(a, b) == a[1] < b[1] \/ (a[1] = b[1] /\ a[2] < b[2])

RECURSIVE insert_lex(_, _)
insert_lex(s, x) ==
    IF s = <<>> THEN <<x>>
    ELSE IF LexLess(x, Head(s)) THEN <<x>> \o s
    ELSE <<Head(s)>> \o insert_lex(Tail(s), x)

\* sorted(points)
RECURSIVE sorted_lex(_)
sorted_lex(s) ==
    IF s = <<>> THEN <<>>
    ELSE insert_lex(sorted_lex(ButLast(s)), s[Len(s)])

Reverse(s) == [i \in 1 .. Len(s) |-> s[Len(s) + 1 - i]]

\* while len(h) >= 2 and orientation(h[-2], h[-1], p) != -1: h.pop()
RECURSIVE chain_pop(_, _)
chain_pop(h, x) ==
    IF Len(h) >= 2 /\ orientation(h[Len(h) - 1], h[Len(h)], x) # -1
    THEN chain_pop(ButLast(h), x)
    ELSE h

\* for p in ...: ...; h.append(p)
RECURSIVE chain_loop(_, _)
chain_loop(h, rest) ==
    IF rest = <<>> THEN h
    ELSE chain_loop(Append(chain_pop(h, Head(rest)), Head(rest)), Tail(rest))

\* andrews_monotone_chain with the guard n < 2 in place of n < 3
andrews_monotone_chain_lt2(pts) ==
    IF Len(pts) < 2
    THEN Raise("ValueError")
    ELSE LET sorted == sorted_lex(pts)
             lower_hull == chain_loop(<<>>, sorted)
             upper_hull == chain_loop(<<>>, Reverse(sorted))
         IN  Ok(ButLast(lower_hull) \o ButLast(upper_hull))

andrews_monotone_chain(pts) ==
    IF Len(pts) < 3
    THEN Raise("ValueError")
    ELSE LET sorted == sorted_lex(pts)
             lower_hull == chain_loop(<<>>, sorted)
             upper_hull == chain_loop(<<>>, Reverse(sorted))
         IN  Ok(ButLast(lower_hull) \o ButLast(upper_hull))

(***************************************************************************)
(* ConvexHullApp.quickhull                                                 *)
(***************************************************************************)

\* find_min_and_max: the loop body, folded over the list from the left
RECURSIVE minimum_loop(_, _)
minimum_loop(pts, m) ==
    IF pts = <<>> THEN m
    ELSE minimum_loop(Tail(pts), IF Head(pts)[1] <= m[1] THEN Head(pts) ELSE m)

RECURSIVE maximum_loop(_, _)
maximum_loop(pts, m) ==
    IF pts = <<>> THEN m
    ELSE maximum_loop(Tail(pts), IF Head(pts)[1] >= m[1] THEN Head(pts) ELSE m)

\* find_min_and_max keeping the least coordinates seen instead of the point
\* that carries the least x
find_min_and_max_corner(pts) ==
    LET mn == minimum_loop(pts, pts[1])
        ys == {pts[i][2] : i \in 1 .. Len(pts)}
        miny == CHOOSE y \in ys : \A z \in ys : y <= z
    IN  <<<<mn[1], miny>>, maximum_loop(pts, pts[1])>>

find_min_and_max(pts) == <<minimum_loop(pts, pts[1]), maximum_loop(pts, pts[1])>>

calc_line_dist(min_absis, max_absis, point) ==
    Abs((point[2] - min_absis[2]) * (max_absis[1] - min_absis[1])
        - (max_absis[2] - min_absis[2]) * (point[1] - min_absis[1]))

\* quickhull.calculate_determinant
calculate_determinant_qh(point_1, point_2, point_3) ==
    point_1[1] * point_2[2] + point_1[2] * point_3[1] + point_2[1] * point_3[2]
    - point_3[1] * point_2[2] - point_3[2] * point_1[1] - point_2[1] * point_1[2]

\* divide_side(...)[0] and divide_side(...)[1]
divide_side_left(pts, min_absis, max_absis) ==
    SelectSeq(pts, LAMBDA point :
        /\ point # min_absis /\ point # max_absis
        /\ calculate_determinant_qh(min_absis, max_absis, point) > 0)

divide_side_right(pts, min_absis, max_absis) ==
    SelectSeq(pts, LAMBDA point :
        /\ point # min_absis /\ point # max_absis
        /\ calculate_determinant_qh(min_absis, max_absis, point) < 0)

\* find_max_distance: i is the position under test, best the position of
\* the maximum so far (index_of_max + 1), d the maximum so far
RECURSIVE max_distance_loop(_, _, _, _, _, _)
max_distance_loop(pts, min_absis, max_absis, i, best, d) ==
    IF i > Len(pts) THEN best
    ELSE LET curr_distance == calc_line_dist(min_absis, max_absis, pts[i])
         IN  IF curr_distance > d
             THEN max_distance_loop(pts, min_absis, max_absis, i + 1, i, curr_distance)
             ELSE max_distance_loop(pts, min_absis, max_absis, i + 1, best, d)

find_max_distance(pts, min_absis, max_absis) ==
    pts[max_distance_loop(pts, min_absis, max_absis, 1, 1, 0)]

\* quick_hull_left; list_of_hull is threaded through the calls
RECURSIVE quick_hull_left(_, _, _, _)
quick_hull_left(pts, min_absis, max_absis, list_of_hull) ==
    IF Len(pts) = 0 THEN list_of_hull
    ELSE LET max_point == find_max_distance(pts, min_absis, max_absis)
             rest == RemoveFirst(pts, max_point)
             first_side == divide_side_left(rest, min_absis, max_point)
             second_side == divide_side_left(rest, max_point, max_absis)
         IN  quick_hull_left(second_side, max_point, max_absis,
                 quick_hull_left(first_side, min_absis, max_point,
                     Append(list_of_hull, max_point)))

RECURSIVE quick_hull_right(_, _, _, _)
quick_hull_right(pts, min_absis, max_absis, list_of_hull) ==
    IF Len(pts) = 0 THEN list_of_hull
    ELSE LET max_point == find_max_distance(pts, min_absis, max_absis)
             rest == RemoveFirst(pts, max_point)
             first_side == divide_side_right(rest, min_absis, max_point)
             second_side == divide_side_right(rest, max_point, max_absis)
         IN  quick_hull_right(second_side, max_point, max_absis,
                 quick_hull_right(first_side, min_absis, max_point,
                     Append(list_of_hull, max_point)))

RECURSIVE SumX(_)
SumX(s) == IF s = <<>> THEN 0 ELSE Head(s)[1] + SumX(Tail(s))

RECURSIVE SumY(_)
SumY(s) == IF s = <<>> THEN 0 ELSE Head(s)[2] + SumY(Tail(s))

\* the sort key atan2(a[0] - central_x, a[1] - central_y) is below that of b;
\* the differences are taken n-fold (n = len(list_of_hull), sx and sy the
\* coordinate sums), which keeps them integers and their angles unchanged
center_angle_less(a, b, n, sx, sy) ==
    Atan2Less(n * a[1] - sx, n * a[2] - sy, n * b[1] - sx, n * b[2] - sy)

RECURSIVE insert_by_center_angle(_, _, _, _, _)
insert_by_center_angle(s, x, n, sx, sy) ==
    IF s = <<>> THEN <<x>>
    ELSE IF center_angle_less(x, Head(s), n, sx, sy) THEN <<x>> \o s
    ELSE <<Head(s)>> \o insert_by_center_angle(Tail(s), x, n, sx, sy)

\* list_of_hull.sort(key=...): a stable sort, here by insertion
RECURSIVE sort_by_center_angle(_, _, _, _)
sort_by_center_angle(s, n, sx, sy) ==
    IF s = <<>> THEN <<>>
    ELSE insert_by_center_angle(sort_by_center_angle(ButLast(s), n, sx, sy),
                                s[Len(s)], n, sx, sy)

\* tuple_of_hull
edges_of(h) ==
    [i \in 1 .. Len(h) |-> IF i = Len(h) THEN <<h[i], h[1]>> ELSE <<h[i], h[i + 1]>>]

quickhull(pts) ==
    IF Len(pts) <= 1
    THEN Ok(pts)
    ELSE LET mm == find_min_and_max(pts)
             min_absis == mm[1]
             max_absis == mm[2]
             left_hull == divide_side_left(pts, min_absis, max_absis)
             right_hull == divide_side_right(pts, min_absis, max_absis)
             list_of_hull ==
                 quick_hull_right(right_hull, min_absis, max_absis,
                     quick_hull_left(left_hull, min_absis, max_absis,
                         <<min_absis, max_absis>>))
             ordered == sort_by_center_angle(list_of_hull, Len(list_of_hull),
                                             SumX(list_of_hull), SumY(list_of_hull))
         IN  Ok(edges_of(ordered))

(***************************************************************************)
(* ConvexHullApp.jarvis_march_convex_hull                                  *)
(***************************************************************************)

\* min(self.points, key=lambda p: (p[1], p[0])): the first minimum of the key
RECURSIVE jarvis_min(_, _)
jarvis_min(pts, m) ==
    IF pts = <<>> THEN m
    ELSE jarvis_min(Tail(pts),
             IF \/ Head(pts)[2] < m[2]
                \/ (Head(pts)[2] = m[2] /\ Head(pts)[1] < m[1])
             THEN Head(pts) ELSE m)

\* for i in range(1, n): ...  (i is the position i + 1 of the Python index i)
RECURSIVE jarvis_endpoint(_, _, _, _)
jarvis_endpoint(pts, pv, endpoint, i) ==
    IF i > Len(pts) THEN endpoint
    ELSE jarvis_endpoint(pts, pv,
             IF endpoint = pv \/ orientation(pv, endpoint, pts[i]) = -1
             THEN pts[i] ELSE endpoint,
             i + 1)

(***************************************************************************)
(* ConvexHullApp.brute_force                                               *)
(***************************************************************************)

\* brute_force.orientation with the codes 1 and 2 exchanged
orientation_bf_flipped(pp, q, r) ==
    LET val == (q[2] - pp[2]) * (r[1] - q[1]) - (q[1] - pp[1]) * (r[2] - q[2])
    IN  IF val = 0 THEN 0 ELSE IF val > 0 THEN 2 ELSE 1

\* brute_force.orientation
orientation_bf(pp, q, r) ==
    LET val == (q[2] - pp[2]) * (r[1] - q[1]) - (q[1] - pp[1]) * (r[2] - q[2])
    IN  IF val = 0 THEN 0 ELSE IF val > 0 THEN 1 ELSE 2

\* for i in range(1, n): if points[i][0] < points[l][0]: l = i
\* (indices are Python's, 0-based)
RECURSIVE leftmost_loop(_, _, _)
leftmost_loop(pts, i, ll) ==
    IF i >= Len(pts) THEN ll
    ELSE leftmost_loop(pts, i + 1, IF pts[i + 1][1] < pts[ll + 1][1] THEN i ELSE ll)

\* for r in range(n): if orientation(points[p], points[q], points[r]) == 2: q = r
RECURSIVE brute_next(_, _, _, _)
brute_next(pts, pp, q, r) ==
    IF r >= Len(pts) THEN q
    ELSE brute_next(pts, pp,
             IF orientation_bf(pts[pp + 1], pts[q + 1], pts[r + 1]) = 2 THEN r ELSE q,
             r + 1)

(***************************************************************************)
(* The hull algorithms as a state machine.  graham_scan, quickhull and     *)
(* andrews_monotone_chain run to completion in one step; the `while True`  *)
(* loops of jarvis_march_convex_hull and brute_force take one step per     *)
(* iteration, and are followed for at most len(points) + 1 iterations.     *)
(***************************************************************************)

PointLists == UNION {[1 .. n -> HullGrid] : n \in 0 .. MaxPts}

IntIdle == seg = <<>> /\ method = "none" /\ verdict = FALSE

InitHull ==
    /\ points \in PointLists
    /\ alg = "none" /\ pc = "idle"
    /\ hull = <<>> /\ pivot = <<>> /\ p = 0 /\ l = 0
    /\ ret = <<>> /\ err = "none" /\ sorted_pts = <<>>
    /\ IntIdle

Returned(name, res) ==
    /\ alg' = name
    /\ ret' = res.val
    /\ err' = res.err
    /\ pc' = IF res.err = "none" THEN "done" ELSE "raised"
    /\ UNCHANGED <<seg, method, verdict, points, hull, pivot, p, l>>

GrahamScan ==
    /\ pc = "idle"
    /\ \E r \in 0 .. MaxRnd :
           /\ sorted_pts' = graham_sort(points, r)
           /\ Returned("graham_scan", graham_scan_sorted(points, sorted_pts'))

QuickHull ==
    /\ pc = "idle"
    /\ Returned("quickhull", quickhull(points))
    /\ UNCHANGED sorted_pts

MonotoneChain ==
    /\ pc = "idle"
    /\ Returned("andrews_monotone_chain", andrews_monotone_chain(points))
    /\ UNCHANGED sorted_pts

\* jarvis_march_convex_hull up to the first test of `while True`
JarvisStart ==
    /\ pc = "idle"
    /\ alg' = "jarvis_march_convex_hull"
    /\ IF Len(points) < 3
       THEN /\ pc' = "raised" /\ err' = "ValueError"
            /\ UNCHANGED <<pivot, hull>>
       ELSE /\ pc' = "wrap" /\ err' = "none"
            /\ pivot' = jarvis_min(points, points[1])
            /\ hull' = <<>>
    /\ UNCHANGED <<seg, method, verdict, points, p, l, ret, sorted_pts>>

\* one iteration of the `while True` of jarvis_march_convex_hull
JarvisStep ==
    /\ pc = "wrap" /\ alg = "jarvis_march_convex_hull"
    /\ Len(hull) <= Len(points)
    /\ LET endpoint == jarvis_endpoint(points, pivot, points[1], 2)
       IN  /\ hull' = Append(hull, pivot)
           /\ IF endpoint = hull'[1]
              THEN /\ pc' = "done" /\ ret' = hull'
                   /\ UNCHANGED pivot
              ELSE /\ pivot' = endpoint
                   /\ UNCHANGED <<pc, ret>>
    /\ UNCHANGED <<seg, method, verdict, points, alg, p, l, err, sorted_pts>>

\* brute_force up to the first test of `while True`
BruteStart ==
    /\ pc = "idle"
    /\ alg' = "brute_force"
    /\ IF Len(points) < 3
       THEN /\ pc' = "done" /\ ret' = <<>>
            /\ UNCHANGED <<p, l, hull>>
       ELSE /\ pc' = "wrap"
            /\ l' = leftmost_loop(points, 1, 0)
            /\ p' = l'
            /\ hull' = <<>>
            /\ UNCHANGED ret
    /\ UNCHANGED <<seg, method, verdict, points, pivot, err, sorted_pts>>

\* one iteration of the `while True` of brute_force
BruteStep ==
    /\ pc = "wrap" /\ alg = "brute_force"
    /\ Len(hull) <= Len(points)
    /\ LET q == brute_next(points, p, (p + 1) % Len(points), 0)
       IN  /\ hull' = Append(hull, points[p + 1])
           /\ p' = q
           /\ IF q = l
              THEN pc' = "done" /\ ret' = hull'
              ELSE UNCHANGED <<pc, ret>>
    /\ UNCHANGED <<seg, method, verdict, points, alg, pivot, l, err, sorted_pts>>

NextHull ==
    \/ GrahamScan
    \/ QuickHull
    \/ MonotoneChain
    \/ JarvisStart
    \/ JarvisStep
    \/ BruteStart
    \/ BruteStep

SpecHull == InitHull /\ [][NextHull]_vars

(***************************************************************************)
(* The intersection tests: Init draws the four points, an action applies   *)
(* one test to them.                                                       *)
(***************************************************************************)

HullIdle ==
    /\ points = <<>> /\ alg = "none" /\ pc = "idle"
    /\ hull = <<>> /\ pivot = <<>> /\ p = 0 /\ l = 0
    /\ ret = <<>> /\ err = "none" /\ sorted_pts = <<>>

InitInt ==
    /\ seg \in Grid \X Grid \X Grid \X Grid
    /\ method = "none" /\ verdict = FALSE
    /\ HullIdle

Applied(name, v) ==
    /\ method = "none"
    /\ method' = name
    /\ verdict' = v
    /\ UNCHANGED <<seg, points, alg, pc, hull, pivot, p, l, ret, err, sorted_pts>>

RunCcw == Applied("do_intersect_ccw", do_intersect_ccw(seg[1], seg[2], seg[3], seg[4]))

RunCrossProduct ==
    Applied("vecotr_cross_product", vecotr_cross_product(seg[1], seg[2], seg[3], seg[4]))

RunLineSweep == Applied("line_sweep", line_sweep(seg[1], seg[2], seg[3], seg[4]))

NextInt == RunCcw \/ RunCrossProduct \/ RunLineSweep

SpecInt == InitInt /\ [][NextInt]_vars

(***************************************************************************)
(* Reference notions for the intersection tests.                           *)
(***************************************************************************)

\* (b - a) x (c - a): positive when c lies to the left of the line a -> b
Cross(a, b, c) == (b[1] - a[1]) * (c[2] - a[2]) - (b[2] - a[2]) * (c[1] - a[1])

\* The parameter of a common point along a - b is a fraction tn / den whose
\* denominator divides (b - a) x (d - c), or a coordinate difference when the
\* segments are parallel.
MaxDen == 2 * MaxCoord * MaxCoord

\* The closed segments a - b and c - d share a point: some point
\* a + (tn / den) (b - a), 0 <= tn <= den, is collinear with c and d and lies
\* between them ((P - c) . (P - d) <= 0).  X, Y are den times its coordinates.
SharePoint(a, b, c, d) ==
    \E den \in 1 .. MaxDen : \E tn \in 0 .. den :
        LET X == den * a[1] + tn * (b[1] - a[1])
            Y == den * a[2] + tn * (b[2] - a[2])
        IN  /\ (d[1] - c[1]) * (Y - den * c[2]) - (d[2] - c[2]) * (X - den * c[1]) = 0
            /\ (X - den * c[1]) * (X - den * d[1])
               + (Y - den * c[2]) * (Y - den * d[2]) <= 0

\* a and b lie strictly on opposite sides of the line c - d, and c and d
\* strictly on opposite sides of the line a - b
ProperCrossing(a, b, c, d) ==
    /\ \/ (Cross(c, d, a) > 0 /\ Cross(c, d, b) < 0)
       \/ (Cross(c, d, a) < 0 /\ Cross(c, d, b) > 0)
    /\ \/ (Cross(a, b, c) > 0 /\ Cross(a, b, d) < 0)
       \/ (Cross(a, b, c) < 0 /\ Cross(a, b, d) > 0)

\* C1: vecotr_cross_product returns true exactly when the closed segments
\* p1-p2 and p3-p4 share a point, degenerate segments included.
C1_CrossProductIffShare ==
    method = "vecotr_cross_product"
        => (verdict <=> SharePoint(seg[1], seg[2], seg[3], seg[4]))

\* C1 witness: the test has answered true on two collinear segments that
\* overlap without crossing, the second of them a single point.
C1_Witness ==
    /\ method = "vecotr_cross_product" /\ verdict
    /\ seg[3] = seg[4] /\ seg[1] # seg[2]
    /\ Cross(seg[1], seg[2], seg[3]) = 0

\* C2: do_intersect_ccw returns true exactly when the closed segments A-B
\* and C-D share a point; collinear segments that do not touch give false.
C2_CcwIffShare ==
    method = "do_intersect_ccw"
        => (verdict <=> SharePoint(seg[1], seg[2], seg[3], seg[4]))

\* C3: line_sweep returns true exactly when the segments cross properly:
\* false on every endpoint touch, T-touch and collinear overlap, and the
\* bounding-box rejection loses no proper crossing.
C3_SweepIffProper ==
    method = "line_sweep"
        => (verdict <=> ProperCrossing(seg[1], seg[2], seg[3], seg[4]))

\* C3 witness: line_sweep has answered true (a proper crossing passed the
\* bounding-box rejection).
C3_Witness ==
    /\ method = "line_sweep" /\ verdict
    /\ ProperCrossing(seg[1], seg[2], seg[3], seg[4])

(***************************************************************************)
(* Reference notions for the hull algorithms.                              *)
(***************************************************************************)

Finished == pc \in {"done", "raised"}

NotAllCollinear(pts) ==
    \E i, j, k \in 1 .. Len(pts) : Cross(pts[i], pts[j], pts[k]) # 0

\* quickhull returns a list of edges once it has at least 2 points
ReturnsEdges(name, pts) == name = "quickhull" /\ Len(pts) >= 2

\* the edges of a returned boundary: the returned edges of quickhull, the
\* cyclically consecutive pairs of vertices of the other algorithms
BoundaryEdges(name, pts, r) ==
    IF ReturnsEdges(name, pts) THEN Range(r)
    ELSE {<<r[i], r[(i % Len(r)) + 1]>> : i \in 1 .. Len(r)}

\* the vertices of a returned boundary
BoundaryVertices(name, pts, r) ==
    IF ReturnsEdges(name, pts)
    THEN {e[1] : e \in Range(r)} \cup {e[2] : e \in Range(r)}
    ELSE Range(r)

\* the first points of the boundary's edges, in order
BoundarySeq(name, pts, r) ==
    IF ReturnsEdges(name, pts) THEN [i \in 1 .. Len(r) |-> r[i][1]] ELSE r

RECURSIVE AreaFrom(_, _)
AreaFrom(v, i) ==
    IF i > Len(v) THEN 0
    ELSE LET a == v[i]
             b == v[(i % Len(v)) + 1]
         IN  a[1] * b[2] - b[1] * a[2] + AreaFrom(v, i + 1)

\* twice the signed area of the polygon v: positive when v runs
\* counter-clockwise
SignedArea2(v) == AreaFrom(v, 1)

Sign(n) == IF n > 0 THEN 1 ELSE IF n < 0 THEN -1 ELSE 0

\* No point of pts lies strictly on the outer side of an edge of the
\* boundary: the outer side of a counter-clockwise polygon is the right of
\* each edge, of a clockwise polygon the left, and both sides of a polygon
\* without area.
NoPointOutside(name, pts, r) ==
    LET s == Sign(SignedArea2(BoundarySeq(name, pts, r)))
    IN  \A e \in BoundaryEdges(name, pts, r) : \A i \in 1 .. Len(pts) :
            IF s = 0 THEN Cross(e[1], e[2], pts[i]) = 0
            ELSE s * Cross(e[1], e[2], pts[i]) >= 0

\* C4: on at least 3 points that are not all collinear the five algorithms
\* produce the same set of hull vertices: whatever algorithm has returned,
\* its vertex set is the one of graham_scan, quickhull and
\* andrews_monotone_chain on the same input.
C4_SameVertexSet ==
    (pc = "done" /\ Len(points) >= 3 /\ NotAllCollinear(points))
        => /\ \A r \in 0 .. MaxRnd :
                  BoundaryVertices(alg, points, ret)
                      = BoundaryVertices("graham_scan", points, graham_scan(points, r).val)
           /\ BoundaryVertices(alg, points, ret)
                  = BoundaryVertices("quickhull", points, quickhull(points).val)
           /\ BoundaryVertices(alg, points, ret)
                  = BoundaryVertices("andrews_monotone_chain", points,
                                     andrews_monotone_chain(points).val)

\* C5: on at least 3 points that are not all collinear, whenever an
\* algorithm returns a boundary no input point lies strictly outside an edge
\* of it.
C5_HullContainsInput ==
    (pc = "done" /\ Len(points) >= 3 /\ NotAllCollinear(points))
        => NoPointOutside(alg, points, ret)

\* C6: jarvis_march_convex_hull terminates: the wrap reaches its start
\* within len(points) iterations.  (Each iteration appends its pivot, and the
\* next pivot depends on the pivot alone; a wrap that has appended more
\* pivots than there are points has repeated one and repeats forever.)
C6_JarvisTerminates ==
    (alg = "jarvis_march_convex_hull" /\ pc = "wrap") => Len(hull) <= Len(points)

\* C7: brute_force terminates: the wrap is back at index l within
\* len(points) iterations.  (The next index depends on the index alone; a
\* wrap longer than the list has repeated an index other than l and repeats
\* forever.)
C7_BruteForceTerminates ==
    (alg = "brute_force" /\ pc = "wrap") => Len(hull) <= Len(points)

\* C8: every vertex of a returned boundary (every end point of a returned
\* edge of quickhull) is a point of the input list.
C8_VerticesFromInput ==
    pc = "done" => BoundaryVertices(alg, points, ret) \subseteq Range(points)

\* C8 witness: quickhull has returned the edges of a boundary of at least 3
\* vertices for an input that also holds a point the boundary leaves out.
C8_Witness ==
    /\ pc = "done" /\ alg = "quickhull" /\ NotAllCollinear(points)
    /\ Cardinality(BoundaryVertices(alg, points, ret)) >= 3
    /\ Range(points) \ BoundaryVertices(alg, points, ret) # {}

\* C9: given exactly 2 distinct points, graham_scan, brute_force and
\* quickhull raise no error and return those 2 points.
C9_TwoPointsReturned ==
    (/\ Finished
     /\ alg \in {"graham_scan", "brute_force", "quickhull"}
     /\ Len(points) = 2 /\ points[1] # points[2])
        => /\ err = "none"
           /\ BoundaryVertices(alg, points, ret) = Range(points)

\* C10: given 0 or 1 points, graham_scan, brute_force and quickhull raise
\* no error and return the input unchanged.
C10_SmallInputUnchanged ==
    (/\ Finished
     /\ alg \in {"graham_scan", "brute_force", "quickhull"}
     /\ Len(points) <= 1)
        => /\ err = "none"
           /\ ret = points

\* C11: jarvis_march_convex_hull and andrews_monotone_chain raise ValueError
\* on every input of 0, 1 or 2 points, with nothing computed before (no hull
\* entry, no pivot, no result), and do not raise it on 3 or more points.
C11_DegenerateInputError ==
    alg \in {"jarvis_march_convex_hull", "andrews_monotone_chain"}
        => /\ Len(points) < 3
                 => /\ pc = "raised" /\ err = "ValueError"
                    /\ hull = <<>> /\ pivot = <<>> /\ ret = <<>>
           /\ Len(points) >= 3 => (pc # "raised" /\ err = "none")

\* C11 witness: andrews_monotone_chain has raised ValueError on 2 distinct
\* points.
C11_Witness ==
    /\ alg = "andrews_monotone_chain" /\ pc = "raised" /\ err = "ValueError"
    /\ Len(points) = 2 /\ points[1] # points[2]

PairwiseDistinct(s) == \A i, j \in 1 .. Len(s) : i # j => s[i] # s[j]

\* the two ends of the segment that holds the collinear points pts: the
\* least and the greatest point in the order by x, then y
LineEnds(pts) ==
    {e \in Range(pts) : \/ \A q \in Range(pts) : e = q \/ LexLess(e, q)
                        \/ \A q \in Range(pts) : e = q \/ LexLess(q, e)}

\* C12: on 3 or more distinct points that are all collinear, every algorithm
\* that returns gives exactly the two extreme points of the line as its
\* vertices, and no interior point.
C12_CollinearTwoExtremes ==
    (/\ pc = "done"
     /\ Len(points) >= 3 /\ PairwiseDistinct(points) /\ ~NotAllCollinear(points))
        => BoundaryVertices(alg, points, ret) = LineEnds(points)

\* s is ordered by non-decreasing polar angle around a and, among points of
\* equal angle, by non-decreasing squared distance to a
AngleDistanceSorted(s, a) ==
    \A i \in 1 .. Len(s) - 1 :
        \/ polar_angle_less(s[i], s[i + 1], a)
        \/ /\ polar_angle_equal(s[i], s[i + 1], a)
           /\ distance(s[i], a) <= distance(s[i + 1], a)

\* C13: whatever pivots the quicksort of graham_scan has drawn, the list it
\* returned is ordered by polar angle around the anchor and then by squared
\* distance, and the result of graham_scan is the one of the run that always
\* takes the first element as pivot: every run gives the same result.
C13_PivotIndependent ==
    (alg = "graham_scan" /\ pc = "done")
        => /\ AngleDistanceSorted(sorted_pts, points[min_idx_loop(points, 1, 0)])
           /\ Len(sorted_pts) = Len(points)
           /\ graham_scan(points, 0) = Ok(ret)

\* C13 witness: graham_scan has returned for an input of 4 points in which a
\* point comes before a nearer point of the same polar angle, both off the
\* anchor, so that the order inside a group of equal angle matters.
C13_Witness ==
    /\ alg = "graham_scan" /\ pc = "done" /\ Len(points) = 4
    /\ NotAllCollinear(points)
    /\ LET a == points[min_idx_loop(points, 1, 0)]
       IN  \E i, j \in 1 .. Len(points) :
               /\ i < j /\ points[i] # a /\ points[j] # a
               /\ polar_angle_equal(points[i], points[j], a)
               /\ distance(points[i], a) > distance(points[j], a)

\* C14: on at least 3 points that are not all collinear, repeated points
\* allowed, the returned boundary holds no point twice (for quickhull: no two
\* returned edges start at the same point).
C14_BoundaryDistinct ==
    (pc = "done" /\ Len(points) >= 3 /\ NotAllCollinear(points))
        => PairwiseDistinct(BoundarySeq(alg, points, ret))

\* every three cyclically consecutive entries p, q, r of v make a strict
\* left turn: (q - p) x (r - q) > 0, which equals (q - p) x (r - p)
StrictlyCounterClockwise(v) ==
    \A i \in 1 .. Len(v) :
        Cross(v[i], v[(i % Len(v)) + 1], v[((i + 1) % Len(v)) + 1]) > 0

NeverTurnsLeft(v) ==
    \A i \in 1 .. Len(v) :
        Cross(v[i], v[(i % Len(v)) + 1], v[((i + 1) % Len(v)) + 1]) <= 0

MinYThenX(a, pts) ==
    /\ a \in Range(pts)
    /\ \A q \in Range(pts) : a[2] < q[2] \/ (a[2] = q[2] /\ a[1] <= q[1])

\* every three consecutive entries of the stack h make a strict left turn
StrictLeftTurns(h) ==
    \A i \in 1 .. Len(h) - 2 : det(h[i], h[i + 1], h[i + 2]) > 0

\* the stack of graham_scan after k iterations of the scan loop, a the
\* anchor and rest the sorted list without it: the loop run on the first k
\* candidates
ScanStack(a, rest, k) ==
    graham_loop(<<a, rest[1]>>, SubSeq(rest, 2, k + 1))

\* C16: in graham_scan on at least 2 points the anchor is the point of
\* minimum y, ties broken by minimum x; after every iteration of the scan
\* loop the stack starts with the anchor and every three consecutive entries
\* make a strict left turn (det > 0); the returned sequence is the last of
\* these stacks, so it starts at the anchor and holds no three consecutive
\* collinear points.
C16_ScanInvariant ==
    (alg = "graham_scan" /\ Finished /\ Len(points) >= 2)
        => LET a == points[min_idx_loop(points, 1, 0)]
               rest == RemoveFirst(sorted_pts, a)
           IN  /\ pc = "done"
               /\ MinYThenX(a, points)
               /\ \A k \in 0 .. Len(rest) - 1 :
                      LET h == ScanStack(a, rest, k)
                      IN  h[1] = a /\ StrictLeftTurns(h)
               /\ ret = ScanStack(a, rest, Len(rest) - 1)
               /\ ret[1] = a
               /\ \A i \in 1 .. Len(ret) - 2 : det(ret[i], ret[i + 1], ret[i + 2]) # 0

\* C16 witness: graham_scan has returned for 4 distinct points, not all
\* collinear, after popping one of them from the stack.
C16_Witness ==
    /\ alg = "graham_scan" /\ pc = "done"
    /\ Len(points) = 4 /\ PairwiseDistinct(points) /\ NotAllCollinear(points)
    /\ Len(ret) = 3
    /\ LET a == points[min_idx_loop(points, 1, 0)]
           rest == RemoveFirst(sorted_pts, a)
       IN  \E k \in 1 .. 2 : Len(ScanStack(a, rest, k)) < k + 2

\* the edges e close a cycle: each ends where the next begins, the last
\* where the first begins
ClosedCycle(e) ==
    \A i \in 1 .. Len(e) : Len(e[i]) = 2 /\ e[i][2] = e[(i % Len(e)) + 1][1]

\* every end point of the edges e begins exactly one of them
OneEdgePerVertex(e) ==
    \A v \in {e[i][1] : i \in 1 .. Len(e)} \cup {e[i][2] : i \in 1 .. Len(e)} :
        Cardinality({i \in 1 .. Len(e) : e[i][1] = v}) = 1

\* C17: on at least 2 points quickhull returns a closed cyclic list of edges
\* with exactly one edge per hull vertex, and the two points that
\* find_min_and_max chose, of least and of greatest x, are among the end
\* points of the edges.
C17_ClosedEdgeList ==
    (alg = "quickhull" /\ Finished /\ Len(points) >= 2)
        => /\ pc = "done"
           /\ ClosedCycle(ret)
           /\ OneEdgePerVertex(ret)
           /\ LET mm == find_min_and_max(points)
              IN  /\ \A q \in Range(points) : mm[1][1] <= q[1] /\ q[1] <= mm[2][1]
                  /\ {mm[1], mm[2]} \subseteq BoundaryVertices(alg, points, ret)

\* the verdict of the intersection test called name on the segments a - b
\* and c - d
VerdictOf(name, a, b, c, d) ==
    IF name = "do_intersect_ccw" THEN do_intersect_ccw(a, b, c, d)
    ELSE IF name = "vecotr_cross_product" THEN vecotr_cross_product(a, b, c, d)
    ELSE line_sweep(a, b, c, d)

\* C18: each intersection test gives the verdict it gave on (A, B, C, D)
\* also with the end points of the first segment swapped, with those of the
\* second swapped, and with the two segments exchanged.
C18_UnorderedSegments ==
    method # "none"
        => /\ verdict = VerdictOf(method, seg[2], seg[1], seg[3], seg[4])
           /\ verdict = VerdictOf(method, seg[1], seg[2], seg[4], seg[3])
           /\ verdict = VerdictOf(method, seg[3], seg[4], seg[1], seg[2])

\* C18 witness: do_intersect_ccw has answered true through its collinear
\* branch on two different segments of positive length, where the four
\* interval tests name the end points one by one.
C18_Witness ==
    /\ method = "do_intersect_ccw" /\ verdict
    /\ seg[1] # seg[2] /\ seg[3] # seg[4]
    /\ {seg[1], seg[2]} # {seg[3], seg[4]}
    /\ Cross(seg[1], seg[2], seg[3]) = 0 /\ Cross(seg[1], seg[2], seg[4]) = 0

====
